---- MODULE Spec2Model ----
(***************************************************************************)
(* A model of the ora terminal spinner.                                    *)
(*                                                                         *)
(* The indicator object (class Ora, src/index.js:7-147) is modelled field  *)
(* by field: text, id, frameIndex, enabled, startTime.  Its methods are    *)
(* operators that map a state record to the state record after the call,   *)
(* so that a method that calls another (start -> render -> clear) is the    *)
(* composition of the operators.  The stream is modelled by the log `out`   *)
(* of the calls that reach the underlying device, in order.                 *)
(*                                                                         *)
(* The output interception layer (the wrapper around stream.write, the      *)
(* pending buffer and its deadline) is not part of src/index.js; it is      *)
(* modelled from the specification, section 4.5, and from the tests that    *)
(* exercise it (src/test.js:2643-2840).                                     *)
(*                                                                         *)
(* Strings are sequences of tokens; the empty string is <<>>.               *)
(***************************************************************************)
EXTENDS Integers, Sequences, FiniteSets, TLC

VARIABLES
    text,          \* this.text
    id,            \* this.id: handle of the redraw timer, NULL when none
    frameIndex,    \* this.frameIndex
    enabled,       \* this.enabled
    options,       \* this.options: timer, timerResolution
    startTime,     \* this.startTime, NULL before the first start()/clear()
    spinner,       \* this.spinner: the frame set, {frames, interval}
    interval,      \* this.interval
    isSilent,      \* options.isSilent, spinner.isSilent
    indent,        \* options.indent, spinner.indent
    prefixText,    \* options.prefixText, spinner.prefixText
    suffixText,    \* options.suffixText, spinner.suffixText
    affixCalls,    \* how often the prefixText / suffixText functions were called
    isTTY,         \* stream.isTTY
    rows,          \* stream.rows, Unknown when the stream does not report it
    columns,       \* stream.columns, Unknown when not reported
    userWrite,     \* the write entry point the stream had at construction
    streamWrite,   \* stream.write: the current write entry point
    out,           \* calls that reached the underlying stream, in order
    timers,        \* handles of the armed setInterval timers
    cursorHidden,  \* cli-cursor: the cursor of the stream is hidden
    originalWrite, \* interception layer: the saved entry point, NoFn if none
    pending,       \* interception layer: PendingWriteBuffer
    deferTimer,    \* interception layer: the deadline timer is armed
    isInternalWrite, \* interception layer: a write is being handled
    now,           \* Date.now()
    stdin,         \* process.stdin: isTTY, isRaw, 'data' listeners, paused
    discardStdin,  \* options.discardStdin
    discarding,    \* input discarding: active, and the state it has saved
    other,         \* a second indicator, on a stream of its own
    action,        \* the action given to the promise helper
    stdinBefore,   \* history: process.stdin at the last start() of an
                   \* indicator that was not spinning
    issuedLog,     \* history: every write in the order it was issued
    afterStop,     \* history: stop() has returned and start() was not called since
    lastOp         \* history: the last operation and what it met

vars == <<text, id, frameIndex, enabled, options, startTime, spinner, interval,
          isSilent, indent, prefixText, suffixText, affixCalls,
          isTTY, rows, columns, userWrite,
          streamWrite, out, timers, cursorHidden, originalWrite,
          pending, deferTimer, isInternalWrite, now, stdin, discardStdin, discarding,
          other, action, stdinBefore, issuedLog, afterStop, lastOp>>

(***************************************************************************)
(* Bounds of the model.                                                    *)
(***************************************************************************)
MaxOut == 10
MaxIssued == 3
MaxTime == 2

(***************************************************************************)
(* Values.                                                                 *)
(***************************************************************************)
NULL == 0
NoFn == "none"
HookFn == "hook"
WriteFns == {"native", "tracker"}
LineBreak == "\n"

\* options.spinner given as an object, as in the tests
frames == <<"a", "b", "c">>

\* stream.rows / stream.columns that the stream does not report (undefined)
Unknown == 0
\* the terminal sizes of the tests: too small for a notice, smaller than the
\* content, exactly the content's rows; narrow and wide
Rows == {Unknown, 1, 2, 3}
Columns == {2, 80}
\* texts of one line and of three lines
Blocks == {<<"L", "1">>,
           <<"L", "1", LineBreak, "L", "2", LineBreak, "L", "3">>}

\* an interval that is not given (undefined; 0 is falsy as well)
NoInterval == 0
\* the interval when neither the options nor the frame set give one
DefaultInterval == 100
\* frame sets assigned to spinner.spinner: without and with an interval
Spinners == {[frames |-> <<"baz">>, interval |-> NoInterval],
             [frames |-> <<"d", "e">>, interval |-> 200]}

\* frame sets that the specification calls invalid: an empty list of frames
InvalidSpinners == {[frames |-> <<>>, interval |-> NoInterval]}
\* cli-spinners, the built-in frame sets by name
cliSpinners == [dots |-> [frames |-> <<"dots1", "dots2">>, interval |-> 80],
                line |-> [frames |-> <<"-", "|">>, interval |-> 130]]
\* what ++i % 0 leaves in this.frameIndex
NaN == -1
\* values assigned to spinner.text: '' and a word
Texts == {<<>>, <<"foo">>}
\* the texts the geometry is measured on: 15 narrow characters, three wide
\* glyphs, a text with an empty line in it, a wide glyph after a line break
Zeros15 == [i \in 1..15 |-> "0"]
GeoTexts == {Zeros15,
             <<"U", "U", "U">>,
             <<"f", "o", "o", LineBreak, LineBreak, "b", "a", "r">>,
             <<"0", LineBreak, "U", "0">>}
\* stream.columns of the tests on wrapping
GeoColumns == {2, 20, 40}
\* values assigned to spinner.indent
Indents == {0, 7, 15}
\* the validated properties of the tests, each with the invalid value the
\* tests assign: indent = -1, isEnabled = 'yes', isSilent = 'no'
Validated == {"indent", "isEnabled", "isSilent"}
InvalidIndent == -1

\* this.timer is read by timeTaken() but never assigned: it is undefined
timer == FALSE

\* this.options: the defaults of the constructor, and what a caller gives
DefaultOptions == [timer |-> FALSE, timerResolution |-> "s"]
TimerOptions == [timer : BOOLEAN, timerResolution : {"s", "ms"}]

\* start(text): no argument, or a new text
StartArgs == {<<>>, <<"bar">>}
\* an argument or option that is not given
Undefined == <<"undefined">>
\* options.spinner: an object (with frames, without frames, with an empty
\* list of frames) or a name (built in or not)
NoName == ""
SpinnerOptions ==
    {[name |-> NoName, set |-> [frames |-> frames, interval |-> NoInterval]],
     [name |-> NoName, set |-> [frames |-> Undefined, interval |-> NoInterval]],
     [name |-> NoName, set |-> [frames |-> <<>>, interval |-> NoInterval]],
     [name |-> "line", set |-> [frames |-> Undefined, interval |-> NoInterval]],
     [name |-> "random-string-12345",
      set |-> [frames |-> Undefined, interval |-> NoInterval]]}
\* a string in a condition (`if (text)`, `symbol || ' '`): the empty string
\* and undefined are falsy
Truthy(v) == v # Undefined /\ v # <<>>

\* stopAndPersist({symbol, text}): symbol not given, '' or '@'
Symbols == {Undefined, <<>>, <<"@">>}
PersistTexts == {<<>>, <<"done">>}
\* log-symbols
logSymbols == [success |-> <<"v">>, error |-> <<"x">>,
               warning |-> <<"!">>, info |-> <<"i">>]
\* succeed(text), fail(text), warn(text), info(text)
Outcomes == {"succeed", "fail", "warn", "info"}
OutcomeTexts == {<<>>, <<"fooed">>}
\* options.prefixText / options.suffixText: a string or a function, and what
\* the function returns; '' when not given
NoAffix == [fn |-> FALSE, str |-> TRUE, value |-> <<>>]
Affixes == {NoAffix,
            [fn |-> FALSE, str |-> TRUE, value |-> <<"bar">>],
            [fn |-> TRUE, str |-> TRUE, value |-> <<"baz">>],
            [fn |-> TRUE, str |-> FALSE, value |-> <<"42">>]}
\* the action given to ora.promise(): none yet
NoAction == [kind |-> "none", state |-> "none", succeeded |-> 0, failed |-> 0]
\* what the tests give to the promise helper as its action: a promise, a
\* function that returns one, the number 123
ActionKinds == {"promise", "function", "number"}
\* the escape sequences that begin and end a synchronized update
synchronizedOutput == [enable |-> <<"ESC[?2026h">>, disable |-> <<"ESC[?2026l">>]
\* foreign chunks: one without and one with a trailing line break
Chunks == {<<"x">>, <<"y", LineBreak>>}

EndsWithLineBreak(c) == Len(c) > 0 /\ c[Len(c)] = LineBreak

St == [text |-> text, id |-> id, frameIndex |-> frameIndex,
       enabled |-> enabled, startTime |-> startTime, spinner |-> spinner,
       interval |-> interval, isSilent |-> isSilent, indent |-> indent,
       prefixText |-> prefixText, suffixText |-> suffixText,
       affixCalls |-> affixCalls, isTTY |-> isTTY,
       rows |-> rows, columns |-> columns,
       userWrite |-> userWrite, streamWrite |-> streamWrite, out |-> out,
       timers |-> timers,
       cursorHidden |-> cursorHidden, originalWrite |-> originalWrite,
       pending |-> pending, deferTimer |-> deferTimer,
       isInternalWrite |-> isInternalWrite, now |-> now,
       stdin |-> stdin, discardStdin |-> discardStdin,
       discarding |-> discarding, stdinBefore |-> stdinBefore,
       issuedLog |-> issuedLog]

\* the indicator is left in state S
ApplyOne(S) ==
    /\ text' = S.text
    /\ id' = S.id
    /\ frameIndex' = S.frameIndex
    /\ enabled' = S.enabled
    /\ startTime' = S.startTime
    /\ spinner' = S.spinner
    /\ interval' = S.interval
    /\ isSilent' = S.isSilent
    /\ indent' = S.indent
    /\ prefixText' = S.prefixText
    /\ suffixText' = S.suffixText
    /\ affixCalls' = S.affixCalls
    /\ isTTY' = S.isTTY
    /\ rows' = S.rows
    /\ columns' = S.columns
    /\ userWrite' = S.userWrite
    /\ streamWrite' = S.streamWrite
    /\ out' = S.out
    /\ timers' = S.timers
    /\ cursorHidden' = S.cursorHidden
    /\ originalWrite' = S.originalWrite
    /\ pending' = S.pending
    /\ deferTimer' = S.deferTimer
    /\ isInternalWrite' = S.isInternalWrite
    /\ now' = S.now
    /\ stdin' = S.stdin
    /\ discardStdin' = S.discardStdin
    /\ discarding' = S.discarding
    /\ stdinBefore' = S.stdinBefore
    /\ issuedLog' = S.issuedLog
    /\ options' = options

\* the indicator is left in state S; nothing else is touched
Apply(S) ==
    /\ ApplyOne(S)
    /\ other' = other
    /\ action' = action

Event(k, by, s) == [k |-> k, by |-> by, s |-> s]

\* a write() that reaches the underlying stream
deliver(S, by, s) == [S EXCEPT !.out = Append(@, Event("write", by, s))]

\* a wrapper that takes the indicator's own write for a foreign one and
\* clears the frame before it lets the bytes through
engineWriteAsForeign(S, s) ==
    LET T == [S EXCEPT !.issuedLog = Append(@, Event("write", "engine", s))]
    IN  IF T.streamWrite = HookFn /\ T.enabled
        THEN deliver([T EXCEPT !.out =
                         @ \o <<Event("clearLine", "engine", <<>>),
                                Event("cursorTo", "engine", <<"0">>)>>],
                     "engine", s)
        ELSE deliver(T, "engine", s)

\* this.stream.write(s) called by the indicator itself: the wrapper, when
\* installed, passes the engine's own bytes straight through
engineWrite(S, s) ==
    deliver([S EXCEPT !.issuedLog = Append(@, Event("write", "engine", s))],
            "engine", s)

(***************************************************************************)
(* Rows on the terminal, from the specification, section 4.1: the content  *)
(* is split on line breaks, a line of width w takes ceil(w / columns) rows *)
(* and at least one, and one row when the columns are not known.  Every    *)
(* token of a string is one cell wide, but for the double-width glyphs,    *)
(* which are two cells wide; the indent is added to the width of a line.   *)
(***************************************************************************)
\* glyphs that take two cells of the terminal
WideGlyphs == {"U"}

\* string-width of one token
displayWidth(tok) == IF tok \in WideGlyphs THEN 2 ELSE 1

\* string-width of a line
RECURSIVE widthOf(_)
widthOf(line) ==
    IF line = <<>> THEN 0 ELSE displayWidth(Head(line)) + widthOf(Tail(line))

RECURSIVE SplitLines(_)
SplitLines(s) ==
    IF \A i \in 1..Len(s) : s[i] # LineBreak
    THEN <<s>>
    ELSE LET i == CHOOSE j \in 1..Len(s) :
                      s[j] = LineBreak /\ \A k \in 1..(j - 1) : s[k] # LineBreak
         IN  <<SubSeq(s, 1, i - 1)>> \o SplitLines(SubSeq(s, i + 1, Len(s)))

RECURSIVE JoinLines(_)
JoinLines(ls) ==
    IF Len(ls) = 0 THEN <<>>
    ELSE IF Len(ls) = 1 THEN ls[1]
    ELSE ls[1] \o <<LineBreak>> \o JoinLines(Tail(ls))

\* rows of a line that ignore the indent
rowsOfLineNoIndent(line, ind, cols) ==
    IF cols = Unknown \/ widthOf(line) = 0
    THEN 1
    ELSE (widthOf(line) + cols - 1) \div cols

rowsOfLine(line, ind, cols) ==
    IF cols = Unknown \/ ind + widthOf(line) = 0
    THEN 1
    ELSE (ind + widthOf(line) + cols - 1) \div cols

RECURSIVE SumRows(_, _, _)
SumRows(ls, ind, cols) ==
    IF ls = <<>> THEN 0
    ELSE rowsOfLine(Head(ls), ind, cols) + SumRows(Tail(ls), ind, cols)

\* a row count that avoids the division by taking unknown columns as one
\* column
rowsForOneColumn(content, ind, cols) ==
    IF content = <<>> THEN 0
    ELSE SumRows(SplitLines(content), ind, IF cols = Unknown THEN 1 ELSE cols)

rowsFor(content, ind, cols) ==
    IF content = <<>> THEN 0 ELSE SumRows(SplitLines(content), ind, cols)

\* the truncation notice, one row of the terminal
Notice == <<"(content truncated to fit terminal)">>

\* a guard that truncates content that fills the terminal exactly, and on a
\* terminal of one row: the lines before the last row, then the notice
fitTooEarly(content, maxRows, ind, cols) ==
    IF maxRows # Unknown /\ rowsFor(content, ind, cols) >= maxRows
    THEN LET ls == SplitLines(content)
             keep == IF Len(ls) < maxRows - 1 THEN Len(ls) ELSE maxRows - 1
         IN  JoinLines(SubSeq(ls, 1, keep) \o <<Notice>>)
    ELSE content

(***************************************************************************)
(* class Ora, src/index.js:7-147.                                          *)
(***************************************************************************)

\* timeTaken(): the elapsed annotation
timeTaken(S) ==
    IF timer /\ S.startTime # NULL
    THEN <<" (", ToString(S.now - S.startTime), "ms)">>
    ELSE <<>>

\* frames[this.frameIndex]: undefined when the index is past the end
frameAt(S) ==
    IF S.frameIndex # NaN /\ S.frameIndex < Len(S.spinner.frames)
    THEN S.spinner.frames[S.frameIndex + 1]
    ELSE "undefined"

\* frame(): the string frame() returns
frameText(S) == <<frameAt(S), " ">> \o S.text \o timeTaken(S)

\* frame() that stamps the start time as clear() does
frameAdvanceStamps(S) ==
    [S EXCEPT !.startTime = S.now,
              !.frameIndex =
        IF S.frameIndex = NaN \/ Len(S.spinner.frames) = 0
        THEN NaN
        ELSE (S.frameIndex + 1) % Len(S.spinner.frames)]

\* frame(): the state frame() leaves
frameAdvance(S) ==
    [S EXCEPT !.frameIndex =
        IF S.frameIndex = NaN \/ Len(S.spinner.frames) = 0
        THEN NaN
        ELSE (S.frameIndex + 1) % Len(S.spinner.frames)]

\* clear()
clear(S) ==
    IF ~S.enabled
    THEN S
    ELSE [S EXCEPT !.startTime = S.now,
                   !.out = @ \o <<Event("clearLine", "engine", <<>>),
                                  Event("cursorTo", "engine", <<"0">>)>>]

\* a layer that never defers a redraw
isRenderDeferredNever(S) == FALSE

\* interception layer: a partial foreign write is pending and defers redraws
isRenderDeferred(S) == S.deferTimer

\* render() that writes the frame without clearing the previous one
renderNoClear(S) ==
    IF isRenderDeferred(S)
    THEN S
    ELSE engineWrite(frameAdvance(S), frameText(S))

\* render() that passes the frame through a guard that truncates too early
renderFitTooEarly(S) ==
    IF isRenderDeferred(S)
    THEN S
    ELSE LET C == clear(S)
         IN  engineWrite(frameAdvance(C),
                         fitTooEarly(frameText(C), C.rows, C.indent, C.columns))

\* render(): clear(), then stream.write(frame())
render(S) ==
    IF isRenderDeferred(S)
    THEN S
    ELSE LET C == clear(S)
         IN  engineWrite(frameAdvance(C), frameText(C))

\* setInterval(): a handle that no armed timer has
setInterval(armed) == CHOOSE h \in 1..(Cardinality(armed) + 1) : h \notin armed

\* start() without the `!this.enabled` test
startIgnoresEnabled(S, arg) ==
    LET T == [S EXCEPT !.text = IF arg # <<>> THEN arg ELSE @,
                       !.startTime = S.now]
    IN  IF T.id # NULL
        THEN T
        ELSE LET R == render([T EXCEPT !.cursorHidden = TRUE])
                 h == setInterval(R.timers)
             IN  [R EXCEPT !.id = h, !.timers = @ \cup {h}]

\* start() without the `|| this.id` test (as Ora.prototype.start, 262-270)
startNoGuard(S, arg) ==
    LET T == [S EXCEPT !.text = IF arg # <<>> THEN arg ELSE @,
                       !.startTime = S.now]
    IN  IF ~T.enabled
        THEN T
        ELSE LET R == render([T EXCEPT !.cursorHidden = TRUE])
                 h == setInterval(R.timers)
             IN  [R EXCEPT !.id = h, !.timers = @ \cup {h}]

\* start(text)
start(S, arg) ==
    LET T == [S EXCEPT !.text = IF arg # <<>> THEN arg ELSE @,
                       !.startTime = S.now]
    IN  IF ~T.enabled \/ T.id # NULL
        THEN T
        ELSE LET R == render([T EXCEPT !.cursorHidden = TRUE])
                 h == setInterval(R.timers)
             IN  [R EXCEPT !.id = h, !.timers = @ \cup {h}]

\* stop() that forgets cliCursor.show()
stopKeepsCursor(S) ==
    IF ~S.enabled
    THEN S
    ELSE clear([S EXCEPT !.timers = @ \ {S.id},
                         !.id = NULL,
                         !.frameIndex = 0])

\* stop() that clears every armed timer, not only its own
stopClearsEveryTimer(S) ==
    IF ~S.enabled
    THEN S
    ELSE LET C == clear([S EXCEPT !.timers = {},
                                  !.id = NULL,
                                  !.frameIndex = 0])
         IN  [C EXCEPT !.cursorHidden = FALSE]

\* stop()
stop(S) ==
    IF ~S.enabled
    THEN S
    ELSE LET C == clear([S EXCEPT !.timers = @ \ {S.id},
                                  !.id = NULL,
                                  !.frameIndex = 0])
         IN  [C EXCEPT !.cursorHidden = FALSE]

\* the line stopAndPersist() writes after stop()
persistLine(S, symbol, txt) ==
    (IF Truthy(symbol) THEN symbol ELSE <<" ">>) \o <<" ">>
        \o (IF Truthy(txt) THEN txt ELSE S.text) \o timeTaken(S)
        \o <<LineBreak>>

(***************************************************************************)
(* The output interception layer, modelled from the specification.         *)
(***************************************************************************)

\* start() installs the wrapper on a TTY stream
installHook(S) ==
    IF S.isTTY /\ S.streamWrite # HookFn
    THEN [S EXCEPT !.originalWrite = S.streamWrite, !.streamWrite = HookFn]
    ELSE S

\* the deadline timer is (re)armed
scheduleRenderDeferral(S) == [S EXCEPT !.deferTimer = TRUE]

\* the deadline timer is cancelled
clearRenderDeferral(S) == [S EXCEPT !.deferTimer = FALSE]

\* a flush that ends the buffered part with a line break of its own
flushPendingLineBreak(S, more) ==
    IF S.pending \o more = <<>>
    THEN S
    ELSE deliver([S EXCEPT !.pending = <<>>], "foreign",
                 (IF S.pending # <<>> /\ more # <<>>
                  THEN S.pending \o <<LineBreak>>
                  ELSE S.pending) \o more)

\* the pending buffer, with `more` appended, goes to the underlying stream
flushPending(S, more) ==
    IF S.pending \o more = <<>>
    THEN S
    ELSE deliver([S EXCEPT !.pending = <<>>], "foreign", S.pending \o more)

\* a removal that puts back the stream's native write, not the saved one
uninstallHookToNative(S) ==
    IF S.streamWrite = HookFn
    THEN [S EXCEPT !.streamWrite = "native", !.originalWrite = NoFn]
    ELSE S

\* stop() removes the wrapper and restores the saved entry point
uninstallHook(S) ==
    IF S.streamWrite = HookFn
    THEN [S EXCEPT !.streamWrite = S.originalWrite, !.originalWrite = NoFn]
    ELSE S

\* a wrapper that lets a partial chunk through at once
hookedWriteThrough(S, chunk) ==
    IF EndsWithLineBreak(chunk)
    THEN render(flushPending(clearRenderDeferral(clear(S)), chunk))
    ELSE scheduleRenderDeferral(deliver(S, "foreign", chunk))

\* the wrapper, called by anyone but the indicator; while a write is being
\* handled, a write is the layer's own and passes straight through
hookedWrite(S, chunk) ==
    IF S.isInternalWrite
    THEN deliver(S, "foreign", chunk)
    ELSE IF EndsWithLineBreak(chunk)
    THEN render(flushPending(clearRenderDeferral(clear(S)), chunk))
    ELSE scheduleRenderDeferral([S EXCEPT !.pending = @ \o chunk])

\* a wrapper that does not reset its flag when the underlying write throws
hookedWriteThrowsStuck(S, chunk) ==
    IF S.isInternalWrite
    THEN S
    ELSE [S EXCEPT !.isInternalWrite = TRUE]

\* the wrapper given a chunk that ends in a line break when the underlying
\* write throws: the flag is set, the first call that reaches the device
\* throws, the flag is reset on the way out and nothing has reached the
\* stream
hookedWriteThrows(S, chunk) ==
    IF S.isInternalWrite
    THEN S
    ELSE [S EXCEPT !.isInternalWrite = FALSE]

\* a deadline that resumes rendering and leaves the buffer as it is
deadlineNoFlush(S) == render(clearRenderDeferral(clear(S)))

\* the deadline elapses: the buffer is flushed as it is, the frame redrawn
deadline(S) == render(flushPending(clearRenderDeferral(clear(S)), <<>>))

\* a stop() that drops what is buffered
stopAllNoFlush(S) ==
    uninstallHook([clearRenderDeferral(stop(S)) EXCEPT !.pending = <<>>])

\* stop() with the layer's part of it
stopAll(S) == uninstallHook(flushPending(clearRenderDeferral(stop(S)), <<>>))

(***************************************************************************)
(* Input discarding (options.discardStdin), modelled from the              *)
(* specification, section 4.6, and the tests src/test.js:1217-1263.        *)
(***************************************************************************)

\* process.stdin as the tests set it up: a TTY that is not in raw mode
Stdins ==
    [isTTY : BOOLEAN, isRaw : BOOLEAN, listeners : {0, 1}, paused : BOOLEAN]

NotDiscarding == [on |-> FALSE, isRaw |-> FALSE, paused |-> FALSE]

\* start(): the device's state is saved, raw mode is set, a 'data' listener
\* that drops the input is attached and the device is resumed
startDiscarding(S) ==
    IF S.discardStdin /\ S.stdin.isTTY /\ ~S.discarding.on
    THEN [S EXCEPT !.discarding = [on |-> TRUE, isRaw |-> S.stdin.isRaw,
                                   paused |-> S.stdin.paused],
                   !.stdin = [@ EXCEPT !.isRaw = TRUE,
                                       !.listeners = @ + 1,
                                       !.paused = FALSE]]
    ELSE S

\* a stop() that resets the device: raw mode off, device paused
stopDiscardingReset(S) ==
    IF S.discarding.on
    THEN [S EXCEPT !.discarding = NotDiscarding,
                   !.stdin = [@ EXCEPT !.isRaw = FALSE,
                                       !.listeners = @ - 1,
                                       !.paused = TRUE]]
    ELSE S

\* stop(): the listener is detached, raw mode and the paused state are put
\* back to what start() has saved
stopDiscarding(S) ==
    IF S.discarding.on
    THEN [S EXCEPT !.discarding = NotDiscarding,
                   !.stdin = [@ EXCEPT !.isRaw = S.discarding.isRaw,
                                       !.listeners = @ - 1,
                                       !.paused = S.discarding.paused]]
    ELSE S

(***************************************************************************)
(* stopAndPersist() and the outcome methods, src/index.js:107-146, with    *)
(* the teardown that stop() has in the layers above.                       *)
(***************************************************************************)
stopAndPersist(S, symbol, txt) ==
    LET T == stopDiscarding(stopAll(S))
    IN  engineWrite(T, persistLine(T, symbol, txt))

succeed(S, txt) == stopAndPersist(S, logSymbols.success, txt)
fail(S, txt) == stopAndPersist(S, logSymbols.error, txt)
warn(S, txt) == stopAndPersist(S, logSymbols.warning, txt)
info(S, txt) == stopAndPersist(S, logSymbols.info, txt)

(***************************************************************************)
(* The state after construction.                                           *)
(***************************************************************************)
\* constructor: the frame set taken from options.spinner (not on Windows)
spinnerOf(o) ==
    IF o.name = NoName
    THEN o.set
    ELSE IF o.name \in DOMAIN cliSpinners
         THEN cliSpinners[o.name]
         ELSE cliSpinners.dots

\* constructor: throws 'Spinner must define `frames`'
constructorThrows(o) == spinnerOf(o).frames = Undefined

\* constructor: this.interval
intervalOf(o) ==
    IF spinnerOf(o).interval # NoInterval
    THEN spinnerOf(o).interval
    ELSE DefaultInterval

\* the fields the constructor and the first start() set, and the stream
InitFields ==
    /\ text = <<"foo">>
    /\ id = NULL
    /\ frameIndex = 0
    /\ enabled \in BOOLEAN
    /\ startTime = NULL
    /\ isTTY \in BOOLEAN
    /\ userWrite \in WriteFns
    /\ streamWrite = userWrite
    /\ out = <<>>
    /\ timers = {}
    /\ cursorHidden = FALSE
    /\ originalWrite = NoFn
    /\ pending = <<>>
    /\ deferTimer = FALSE
    /\ isInternalWrite = FALSE
    /\ now = 1
    /\ discarding = NotDiscarding
    /\ issuedLog = <<>>
    /\ afterStop = FALSE

\* new Ora({spinner: {frames}}), as the tests construct it
InitIndicator ==
    /\ InitFields
    /\ spinner = [frames |-> frames, interval |-> NoInterval]
    /\ interval = DefaultInterval
    /\ lastOp = [op |-> "new", arg |-> <<>>, arg2 |-> <<>>, num |-> 0,
                 spinning |-> FALSE, hooked |-> FALSE, pending |-> <<>>,
                 discarding |-> FALSE, thrown |-> FALSE, ret |-> <<>>]

\* process.stdin as the tests' fake device: a flowing TTY, not in raw mode
InitStdin ==
    /\ stdin = [isTTY |-> TRUE, isRaw |-> FALSE, listeners |-> 0,
                paused |-> FALSE]
    /\ discardStdin = TRUE
    /\ stdinBefore = stdin

\* the options the tests' doSpinner() passes, on its pass-through stream
InitAffixes ==
    /\ indent = 0
    /\ prefixText = NoAffix
    /\ suffixText = NoAffix
    /\ affixCalls = 0

\* new Ora() with neither timer nor timerResolution given
InitDefaults == options = DefaultOptions

InitOptions ==
    /\ isSilent = FALSE
    /\ rows = Unknown
    /\ columns = Unknown
    /\ InitAffixes

\* a second indicator, enabled, on a pass-through stream of its own (as in
\* src/test.js:2546-2551), and no action given to the promise helper
InitOthers ==
    /\ other = [St EXCEPT !.text = <<"second">>, !.enabled = TRUE,
                          !.spinner = [frames |-> frames,
                                       interval |-> NoInterval],
                          !.interval = DefaultInterval,
                          !.isTTY = FALSE, !.userWrite = "native",
                          !.streamWrite = "native", !.isSilent = FALSE,
                          !.rows = Unknown, !.columns = Unknown,
                          !.indent = 0, !.prefixText = NoAffix,
                          !.suffixText = NoAffix,
                          !.stdin = [isTTY |-> TRUE, isRaw |-> FALSE,
                                     listeners |-> 0, paused |-> FALSE],
                          !.discardStdin = FALSE,
                          !.stdinBefore = [isTTY |-> TRUE, isRaw |-> FALSE,
                                           listeners |-> 0, paused |-> FALSE]]
    /\ action = NoAction

Init == InitIndicator /\ InitStdin /\ InitOptions /\ InitOthers /\ InitDefaults

\* the operation `name` called with `arg`, and the state it was called in
Op(name, arg) ==
    [op |-> name, arg |-> arg, arg2 |-> <<>>, num |-> 0,
     spinning |-> id # NULL,
     hooked |-> streamWrite = HookFn, pending |-> pending,
     discarding |-> discarding.on, thrown |-> FALSE, ret |-> <<>>]

Room == Len(out) < MaxOut /\ Len(issuedLog) < MaxIssued

(***************************************************************************)
(* The operations.                                                         *)
(***************************************************************************)
Start(arg) ==
    /\ Room
    /\ LET S == [St EXCEPT !.stdinBefore =
                     IF id # NULL THEN @ ELSE stdin]
       IN  Apply(IF enabled /\ id = NULL
                 THEN startDiscarding(installHook(start(S, arg)))
                 ELSE start(S, arg))
    /\ afterStop' = FALSE
    /\ lastOp' = Op("start", arg)

Stop ==
    /\ Room
    /\ Apply(stopDiscarding(stopAll(St)))
    /\ afterStop' = TRUE
    /\ lastOp' = Op("stop", <<>>)

\* stopAndPersist() that writes its line before it calls stop()
StopAndPersistLineFirst(symbol, txt) ==
    /\ Room
    /\ Apply(stopDiscarding(
                stopAll(engineWrite(St, persistLine(St, symbol, txt)))))
    /\ afterStop' = TRUE
    /\ lastOp' = [Op("stopAndPersist", symbol) EXCEPT !.arg2 = txt]

StopAndPersist(symbol, txt) ==
    /\ Room
    /\ Apply(stopAndPersist(St, symbol, txt))
    /\ afterStop' = TRUE
    /\ lastOp' = [Op("stopAndPersist", symbol) EXCEPT !.arg2 = txt]

\* succeed(text), fail(text), warn(text), info(text)
Outcome(kind, txt) ==
    /\ Room
    /\ Apply(CASE kind = "succeed" -> succeed(St, txt)
                [] kind = "fail" -> fail(St, txt)
                [] kind = "warn" -> warn(St, txt)
                [] kind = "info" -> info(St, txt))
    /\ afterStop' = TRUE
    /\ lastOp' = Op(kind, txt)

\* the setInterval callback: render.bind(this)
TimerTick ==
    /\ Room
    /\ timers # {}
    /\ Apply(render(St))
    /\ UNCHANGED afterStop
    /\ lastOp' = Op("tick", <<>>)

\* the setInterval callback of the indicator's own timer
OwnTick ==
    /\ Room
    /\ id \in timers
    /\ Apply(render(St))
    /\ UNCHANGED afterStop
    /\ lastOp' = Op("tick", <<>>)

\* the second indicator as its methods see it: setInterval, clearInterval
\* and Date.now are the process's, shared with the first indicator
OtherSt == [other EXCEPT !.timers = timers, !.now = now]

\* the second indicator is left in state R
ApplyOther(R) ==
    /\ ApplyOne([St EXCEPT !.timers = R.timers])
    /\ other' = [R EXCEPT !.timers = other.timers, !.now = other.now]
    /\ UNCHANGED <<action, afterStop>>

OtherRoom == Len(other.out) < MaxOut /\ Len(other.issuedLog) < MaxIssued

\* the second indicator's start()
OtherStart ==
    /\ OtherRoom
    /\ ApplyOther(start(OtherSt, <<>>))
    /\ lastOp' = Op("other.start", <<>>)

\* the second indicator's stop()
OtherStop ==
    /\ OtherRoom
    /\ ApplyOther(stop(OtherSt))
    /\ lastOp' = Op("other.stop", <<>>)

\* the setInterval callback of the second indicator's timer
OtherTick ==
    /\ OtherRoom
    /\ other.id \in timers
    /\ ApplyOther(render(OtherSt))
    /\ lastOp' = Op("other.tick", <<>>)

\* module.exports.promise(action, options): `typeof action.then` is
\* 'function' for a promise only; the promise given may have settled already
PromiseHelper(kind, state) ==
    /\ Room
    /\ action = NoAction
    /\ lastOp.op = "new"
    /\ IF kind # "promise"
       THEN /\ Apply(St)
            /\ UNCHANGED afterStop
            /\ lastOp' = [Op("promise", <<kind>>) EXCEPT !.thrown = TRUE]
       ELSE /\ ApplyOne(start(St, <<>>))
            /\ other' = other
            /\ action' = [NoAction EXCEPT !.kind = kind, !.state = state]
            /\ afterStop' = FALSE
            /\ lastOp' = Op("promise", <<kind>>)

\* the promise given to the helper is fulfilled or rejected
Settle(state) ==
    /\ action.state = "pending"
    /\ ApplyOne(St)
    /\ other' = other
    /\ action' = [action EXCEPT !.state = state]
    /\ UNCHANGED afterStop
    /\ lastOp' = Op("settle", <<state>>)

\* the reaction registered by action.then(onFulfilled, onRejected) runs,
\* once: spinner.succeed() or spinner.fail()
React ==
    /\ Room
    /\ action.state \in {"fulfilled", "rejected"}
    /\ action.succeeded + action.failed = 0
    /\ ApplyOne(IF action.state = "fulfilled"
                THEN succeed(St, Undefined)
                ELSE fail(St, Undefined))
    /\ other' = other
    /\ action' = IF action.state = "fulfilled"
                 THEN [action EXCEPT !.succeeded = @ + 1]
                 ELSE [action EXCEPT !.failed = @ + 1]
    /\ afterStop' = TRUE
    /\ lastOp' = Op("react", <<action.state>>)

\* the deadline of the pending buffer elapses
DeadlineFire ==
    /\ deferTimer
    /\ Apply(deadline(St))
    /\ UNCHANGED afterStop
    /\ lastOp' = Op("deadline", <<>>)

\* stream.write(chunk) called by anyone but the indicator
ForeignWrite(chunk) ==
    /\ Room
    /\ LET S == [St EXCEPT !.issuedLog =
                     Append(@, Event("write", "foreign", chunk))]
       IN  Apply(IF streamWrite = HookFn
                 THEN hookedWrite(S, chunk)
                 ELSE deliver(S, "foreign", chunk))
    /\ UNCHANGED afterStop
    /\ lastOp' = Op("write", chunk)

\* stream.write(chunk) called by anyone but the indicator, through the
\* wrapper, while the underlying write throws; a chunk without a line break
\* is only buffered and does not reach the underlying write
ThrowingWrite(chunk) ==
    /\ streamWrite = HookFn
    /\ EndsWithLineBreak(chunk)
    /\ Apply(hookedWriteThrows(St, chunk))
    /\ UNCHANGED afterStop
    /\ lastOp' = [Op("writeThrows", chunk) EXCEPT !.thrown = TRUE]

\* spinner.enabled = b
SetEnabled(b) ==
    /\ Apply([St EXCEPT !.enabled = b])
    /\ UNCHANGED afterStop
    /\ lastOp' = Op("setEnabled", <<>>)

\* spinner.render()
Render ==
    /\ Room
    /\ Apply(render(St))
    /\ UNCHANGED afterStop
    /\ lastOp' = Op("render", <<>>)

\* spinner.frame()
Frame ==
    /\ Apply(frameAdvance(St))
    /\ UNCHANGED afterStop
    /\ lastOp' = [Op("frame", <<>>) EXCEPT !.ret = frameText(St)]

\* the Geometry Calculator is applied to the indicator's text
Measure ==
    /\ text # <<>>
    /\ Apply(St)
    /\ UNCHANGED afterStop
    /\ lastOp' = [Op("measure", text) EXCEPT
                      !.num = rowsFor(text, indent, columns)]

\* spinner.clear()
Clear ==
    /\ Len(out) < MaxOut
    /\ Apply(clear(St))
    /\ UNCHANGED afterStop
    /\ lastOp' = Op("clear", <<>>)

\* spinner.spinner = sp
SetSpinner(sp) ==
    /\ sp # spinner
    /\ Apply([St EXCEPT !.spinner = sp])
    /\ UNCHANGED afterStop
    /\ lastOp' = Op("setSpinner", sp.frames)

\* spinner.text = t
SetText(t) ==
    /\ t # text
    /\ Apply([St EXCEPT !.text = t])
    /\ UNCHANGED afterStop
    /\ lastOp' = Op("setText", t)

\* spinner.indent = n
SetIndent(n) ==
    /\ n # indent
    /\ Apply([St EXCEPT !.indent = n])
    /\ UNCHANGED afterStop
    /\ lastOp' = [Op("setIndent", <<>>) EXCEPT !.num = n]

\* spinner.indent = -1, spinner.enabled = 'yes', spinner.isSilent = 'no':
\* plain assignments; a non-empty string is truthy wherever the field is
\* tested
AssignInvalid(prop) ==
    /\ Apply(CASE prop = "indent" -> [St EXCEPT !.indent = InvalidIndent]
                [] prop = "isEnabled" -> [St EXCEPT !.enabled = TRUE]
                [] prop = "isSilent" -> [St EXCEPT !.isSilent = TRUE])
    /\ UNCHANGED afterStop
    /\ lastOp' = Op("assignInvalid", <<prop>>)

\* the terminal is resized, or the test sets stream.rows / stream.columns
Resize(r, c) ==
    /\ <<r, c>> # <<rows, columns>>
    /\ Apply([St EXCEPT !.rows = r, !.columns = c])
    /\ UNCHANGED afterStop
    /\ lastOp' = Op("resize", <<>>)

\* spinner.isSilent = b
SetSilent(b) ==
    /\ b # isSilent
    /\ Apply([St EXCEPT !.isSilent = b])
    /\ UNCHANGED afterStop
    /\ lastOp' = Op("setSilent", <<>>)

\* other code pauses or resumes process.stdin, or sets its raw mode, while
\* the indicator does not spin
StdinUser(raw, paused) ==
    /\ id = NULL
    /\ ~discarding.on
    /\ <<raw, paused>> # <<stdin.isRaw, stdin.paused>>
    /\ Apply([St EXCEPT !.stdin = [@ EXCEPT !.isRaw = raw,
                                            !.paused = paused]])
    /\ UNCHANGED afterStop
    /\ lastOp' = Op("stdin", <<>>)

\* time passes
AdvanceClock ==
    /\ now < MaxTime
    /\ Apply([St EXCEPT !.now = now + 1])
    /\ UNCHANGED afterStop
    /\ lastOp' = Op("clock", <<>>)

Next ==
    \/ \E arg \in StartArgs \cup Blocks : Start(arg)
    \/ Stop
    \/ \E symbol \in Symbols, txt \in PersistTexts : StopAndPersist(symbol, txt)
    \/ \E kind \in Outcomes, txt \in OutcomeTexts : Outcome(kind, txt)
    \/ TimerTick
    \/ DeadlineFire
    \/ \E chunk \in Chunks : ForeignWrite(chunk)
    \/ \E b \in BOOLEAN : SetEnabled(b)
    \/ Render
    \/ Clear
    \/ \E sp \in Spinners : SetSpinner(sp)
    \/ \E b \in BOOLEAN : SetSilent(b)
    \/ \E r \in Rows, c \in Columns : Resize(r, c)
    \/ \E raw \in BOOLEAN, paused \in BOOLEAN : StdinUser(raw, paused)
    \/ AdvanceClock

Spec == Init /\ [][Next]_vars

(***************************************************************************)
(* The indicator driven through its methods only: no field is assigned     *)
(* from outside.                                                           *)
(***************************************************************************)
NextCalls ==
    \/ \E arg \in StartArgs : Start(arg)
    \/ Stop
    \/ \E symbol \in Symbols, txt \in PersistTexts : StopAndPersist(symbol, txt)
    \/ TimerTick
    \/ DeadlineFire
    \/ \E chunk \in Chunks : ForeignWrite(chunk)
    \/ AdvanceClock

SpecCalls == Init /\ [][NextCalls]_vars

(***************************************************************************)
(* The indicator on a TTY stream that other code writes to.  The clock     *)
(* stands still and the calls take their default arguments.                *)
(***************************************************************************)
InitTTY == Init /\ isTTY

NextTTY ==
    \/ Start(<<>>)
    \/ Stop
    \/ StopAndPersist(<<"@">>, <<>>)
    \/ TimerTick
    \/ DeadlineFire
    \/ \E chunk \in Chunks : ForeignWrite(chunk)
    \/ \E b \in BOOLEAN : SetEnabled(b)

SpecTTY == InitTTY /\ [][NextTTY]_vars

\* an armed setTimeout fires: the event loop runs the deadline's callback
FairTTY == SpecTTY /\ WF_vars(DeadlineFire)

(***************************************************************************)
(* The indicator and the input device: any device state at construction,   *)
(* with and without options.discardStdin.  The output stream is the tests' *)
(* pass-through stream, which is not a TTY.                                *)
(***************************************************************************)
InitDevice ==
    /\ InitDefaults
    /\ InitIndicator
    /\ ~isTTY
    /\ userWrite = "native"
    /\ InitOptions
    /\ stdin \in Stdins
    /\ discardStdin \in BOOLEAN
    /\ stdinBefore = stdin
    /\ InitOthers

NextDevice ==
    \/ Start(<<>>)
    \/ Stop
    \/ TimerTick
    \/ \E b \in BOOLEAN : SetEnabled(b)
    \/ \E raw \in BOOLEAN, paused \in BOOLEAN : StdinUser(raw, paused)

SpecDevice == InitDevice /\ [][NextDevice]_vars

(***************************************************************************)
(* The indicator ended by stopAndPersist() and by the outcome methods,     *)
(* on the tests' pass-through stream.                                      *)
(***************************************************************************)
InitPersist == Init /\ userWrite = "native" /\ ~isTTY

NextPersist ==
    \/ Start(<<>>)
    \/ Stop
    \/ \E symbol \in Symbols, txt \in PersistTexts : StopAndPersist(symbol, txt)
    \/ \E kind \in Outcomes, txt \in OutcomeTexts : Outcome(kind, txt)
    \/ TimerTick
    \/ \E b \in BOOLEAN : SetEnabled(b)

SpecPersist == InitPersist /\ [][NextPersist]_vars

(***************************************************************************)
(* The indicator started and then ended by the outcome methods, its        *)
(* enabled flag as constructed (src/test.js:2568-2576).                    *)
(***************************************************************************)
NextOutcomes ==
    \/ Start(<<>>)
    \/ Stop
    \/ \E kind \in Outcomes, txt \in OutcomeTexts : Outcome(kind, txt)
    \/ TimerTick

SpecOutcomes == InitPersist /\ [][NextOutcomes]_vars

(***************************************************************************)
(* The indicator constructed with the timer options, started, redrawn and  *)
(* ended with a persisted line, while time passes.                         *)
(***************************************************************************)
InitTimer ==
    /\ InitIndicator
    /\ InitStdin
    /\ InitOptions
    /\ InitOthers
    /\ options \in TimerOptions
    /\ userWrite = "native"
    /\ ~isTTY

NextTimer ==
    \/ Start(<<>>)
    \/ \E kind \in Outcomes : Outcome(kind, <<>>)
    \/ TimerTick
    \/ Render
    \/ Clear
    \/ Frame
    \/ AdvanceClock

SpecTimer == InitTimer /\ [][NextTimer]_vars

(***************************************************************************)
(* The indicator's methods and fields as its caller uses them, with no     *)
(* other writer on the stream.                                             *)
(***************************************************************************)
InitApi ==
    /\ InitDefaults
    /\ InitIndicator
    /\ InitStdin
    /\ userWrite = "native"
    /\ ~isTTY
    /\ isSilent \in BOOLEAN
    /\ rows = Unknown
    /\ columns = Unknown
    /\ InitAffixes
    /\ InitOthers

NextApi ==
    \/ Start(<<>>)
    \/ Stop
    \/ StopAndPersist(<<"@">>, <<"done">>)
    \/ TimerTick
    \/ Render
    \/ Clear
    \/ \E b \in BOOLEAN : SetEnabled(b)
    \/ \E sp \in Spinners : SetSpinner(sp)
    \/ \E b \in BOOLEAN : SetSilent(b)

SpecApi == InitApi /\ [][NextApi]_vars

(***************************************************************************)
(* The enabled indicator on a terminal of a known or unknown size that can *)
(* be resized between renders, showing texts of one and of several lines.  *)
(***************************************************************************)
InitRows ==
    /\ InitDefaults
    /\ InitIndicator
    /\ InitStdin
    /\ isSilent = FALSE
    /\ InitAffixes
    /\ isTTY
    /\ enabled
    /\ userWrite = "native"
    /\ rows \in Rows
    /\ columns \in Columns
    /\ InitOthers

NextRows ==
    \/ \E arg \in Blocks : Start(arg)
    \/ Stop
    \/ TimerTick
    \/ Render
    \/ \E r \in Rows, c \in Columns : Resize(r, c)

SpecRows == InitRows /\ [][NextRows]_vars

(***************************************************************************)
(* The indicator constructed with any options.spinner, and its properties  *)
(* assigned valid and invalid values.  A constructor that throws leaves no *)
(* indicator.                                                              *)
(***************************************************************************)
InitProps ==
    /\ InitDefaults
    /\ InitFields
    /\ ~isTTY
    /\ userWrite = "native"
    /\ \E o \in SpinnerOptions :
          /\ ~constructorThrows(o)
          /\ spinner = spinnerOf(o)
          /\ interval = intervalOf(o)
          /\ lastOp = [op |-> "new",
                       arg |-> IF o.name # NoName THEN <<o.name>>
                               ELSE o.set.frames,
                       arg2 |-> <<>>, num |-> 0,
                       spinning |-> FALSE, hooked |-> FALSE, pending |-> <<>>,
                       discarding |-> FALSE, thrown |-> FALSE, ret |-> <<>>]
    /\ InitStdin
    /\ InitOptions
    /\ InitOthers

NextProps ==
    \/ Start(<<>>)
    \/ Stop
    \/ \E sp \in Spinners \cup InvalidSpinners : SetSpinner(sp)
    \/ \E n \in Indents : SetIndent(n)
    \/ \E prop \in Validated : AssignInvalid(prop)

SpecProps == InitProps /\ [][NextProps]_vars

(***************************************************************************)
(* The indicator constructed with any prefixText and suffixText, on the    *)
(* tests' pass-through stream.                                             *)
(***************************************************************************)
InitCompose ==
    /\ InitDefaults
    /\ InitIndicator
    /\ InitStdin
    /\ ~isTTY
    /\ userWrite = "native"
    /\ isSilent = FALSE
    /\ rows = Unknown
    /\ columns = Unknown
    /\ indent = 0
    /\ prefixText \in Affixes
    /\ suffixText \in Affixes
    /\ affixCalls = 0
    /\ InitOthers

NextCompose ==
    \/ Start(<<>>)
    \/ Stop
    \/ StopAndPersist(<<"@">>, <<"foo">>)
    \/ TimerTick
    \/ \E t \in Texts : SetText(t)

SpecCompose == InitCompose /\ [][NextCompose]_vars

(***************************************************************************)
(* The indicator whose caller composes frames itself, between the renders  *)
(* of the timer, while time passes.                                        *)
(***************************************************************************)
NextFrame ==
    \/ Start(<<>>)
    \/ Stop
    \/ TimerTick
    \/ Frame
    \/ \E t \in Texts : SetText(t)
    \/ AdvanceClock

SpecFrame == InitPersist /\ [][NextFrame]_vars

(***************************************************************************)
(* Two enabled indicators on two pass-through streams in one process.      *)
(***************************************************************************)
InitPair == InitPersist /\ enabled

NextPair ==
    \/ Start(<<>>)
    \/ Stop
    \/ OwnTick
    \/ OtherStart
    \/ OtherStop
    \/ OtherTick

SpecPair == InitPair /\ [][NextPair]_vars

(***************************************************************************)
(* The promise helper: it is given an action, starts the indicator it has  *)
(* constructed and returns it; the timer renders and the caller assigns a  *)
(* text until the action settles and the reaction runs.                    *)
(***************************************************************************)
NextPromise ==
    \/ \E kind \in ActionKinds, state \in {"pending", "fulfilled", "rejected"} :
          PromiseHelper(kind, state)
    \/ \E state \in {"fulfilled", "rejected"} : Settle(state)
    \/ React
    \/ TimerTick
    \/ \E t \in Texts : SetText(t)
    \/ AdvanceClock

SpecPromise == InitPersist /\ [][NextPromise]_vars

\* a settled promise runs its reactions: the job queue is drained
FairPromise == SpecPromise /\ WF_vars(React)

(***************************************************************************)
(* The enabled indicator on a terminal of known width, with any indent,    *)
(* rendering and clearing texts of one and of several lines.               *)
(***************************************************************************)
InitDraw ==
    /\ InitDefaults
    /\ InitIndicator
    /\ InitStdin
    /\ isSilent = FALSE
    /\ isTTY
    /\ enabled
    /\ userWrite = "native"
    /\ rows = Unknown
    /\ columns \in Columns
    /\ indent \in Indents
    /\ prefixText = NoAffix
    /\ suffixText = NoAffix
    /\ affixCalls = 0
    /\ InitOthers

NextDraw ==
    \/ \E arg \in Blocks : Start(arg)
    \/ Stop
    \/ TimerTick
    \/ Render
    \/ Clear

SpecDraw == InitDraw /\ [][NextDraw]_vars

(***************************************************************************)
(* The Geometry Calculator applied to texts of narrow and wide glyphs, of  *)
(* one and several lines, for any indent and any known width.              *)
(***************************************************************************)
InitGeometry ==
    /\ InitDefaults
    /\ InitIndicator
    /\ InitStdin
    /\ isSilent = FALSE
    /\ isTTY
    /\ enabled
    /\ userWrite = "native"
    /\ rows = Unknown
    /\ columns \in GeoColumns
    /\ InitAffixes
    /\ InitOthers

NextGeometry ==
    \/ \E t \in GeoTexts : SetText(t)
    \/ \E n \in Indents : SetIndent(n)
    \/ \E c \in GeoColumns : Resize(Unknown, c)
    \/ Measure

SpecGeometry == InitGeometry /\ [][NextGeometry]_vars

(***************************************************************************)
(* The Geometry Calculator on a terminal whose width may be 0 or not       *)
(* reported (both falsy, both Unknown here), and may become known.         *)
(***************************************************************************)
InitEdge ==
    /\ InitDefaults
    /\ InitIndicator
    /\ InitStdin
    /\ isSilent = FALSE
    /\ isTTY
    /\ enabled
    /\ userWrite = "native"
    /\ rows = Unknown
    /\ columns \in GeoColumns \cup {Unknown}
    /\ InitAffixes
    /\ InitOthers

NextEdge ==
    \/ \E t \in GeoTexts : SetText(t)
    \/ \E n \in Indents : SetIndent(n)
    \/ \E c \in GeoColumns \cup {Unknown} : Resize(Unknown, c)
    \/ Measure

SpecEdge == InitEdge /\ [][NextEdge]_vars

(***************************************************************************)
(* The indicator on a TTY stream whose underlying write throws for some of *)
(* the foreign writes.                                                     *)
(***************************************************************************)
NextBroken ==
    \/ Start(<<>>)
    \/ Stop
    \/ TimerTick
    \/ DeadlineFire
    \/ \E chunk \in Chunks : ForeignWrite(chunk)
    \/ \E chunk \in Chunks : ThrowingWrite(chunk)
    \/ \E b \in BOOLEAN : SetEnabled(b)

SpecBroken == InitTTY /\ [][NextBroken]_vars

(***************************************************************************)
(* What the claims speak of.                                               *)
(***************************************************************************)
RECURSIVE Flat(_)
Flat(ss) == IF ss = <<>> THEN <<>> ELSE Head(ss) \o Flat(Tail(ss))

IsWrite(e) == e.k = "write"
IsForeign(e) == e.k = "write" /\ e.by = "foreign"
IsEngine(e) == e.k = "write" /\ e.by = "engine"

\* the foreign bytes of a log, in its order
ForeignBytes(log) ==
    LET F == SelectSeq(log, IsForeign)
    IN  Flat([i \in 1..Len(F) |-> F[i].s])

\* the writes of a log in its order: each engine write whole, each foreign
\* write byte by byte
Units(log) ==
    LET W == SelectSeq(log, IsWrite)
    IN  Flat([i \in 1..Len(W) |->
                IF W[i].by = "foreign"
                THEN [j \in 1..Len(W[i].s) |->
                        Event("write", "foreign", <<W[i].s[j]>>)]
                ELSE <<W[i]>>])

Hooked == streamWrite = HookFn

\* C1, as claimed: start() while the indicator is spinning changes nothing
\* at all: not the timer handle, not the armed timers, no other state.
C1_StartWhileSpinningChangesNothing ==
    [][(lastOp'.op = "start" /\ id # NULL) =>
         UNCHANGED <<text, id, frameIndex, enabled, startTime, streamWrite,
                     out, timers, cursorHidden, originalWrite, pending,
                     deferTimer>>]_vars

\* C1, amended: start() while the indicator is spinning keeps the timer
\* handle and the armed timers, writes nothing and changes no other state
\* except that it takes over a text argument and sets startTime to now.
C1_StartWhileSpinning ==
    [][(lastOp'.op = "start" /\ id # NULL) =>
         /\ id' = id
         /\ timers' = timers
         /\ UNCHANGED <<frameIndex, enabled, streamWrite, out, cursorHidden,
                        originalWrite, pending, deferTimer>>
         /\ text' = (IF lastOp'.arg # <<>> THEN lastOp'.arg ELSE text)
         /\ startTime' = now]_vars

\* start("bar") has been called on a spinning indicator
C1_Witness ==
    /\ lastOp.op = "start"
    /\ lastOp.spinning
    /\ lastOp.arg = <<"bar">>
    /\ text = <<"bar">>
    /\ id # NULL
    /\ timers = {id}

\* C2: once stop() has returned, and until start() is called, neither a tick
\* of the redraw timer nor the deadline of the pending buffer writes to the
\* stream.
C2_NothingFiresAfterStop ==
    [][(afterStop /\ lastOp'.op \in {"tick", "deadline"}) => out' = out]_vars

C6_ForeignBytesAreExact ==
    ForeignBytes(out) \o pending = ForeignBytes(issuedLog)

\* two chunks, the first one partial, have reached the stream as one line
C6_Witness ==
    /\ pending = <<>>
    /\ \E i \in 1..Len(out) :
         /\ IsForeign(out[i])
         /\ out[i].s = <<"x", "y", LineBreak>>

C8_StopRestoresWrite ==
    lastOp.op = "stop" => (streamWrite = userWrite /\ originalWrite = NoFn)

\* stop() has met the wrapper with a buffered chunk and has put back the
\* write function that the tests install
C8_Witness ==
    /\ lastOp.op = "stop"
    /\ lastOp.hooked
    /\ lastOp.pending # <<>>
    /\ userWrite = "tracker"
    /\ streamWrite = "tracker"

\* C9: stop() writes what is in the pending buffer to the stream before it
\* returns, and leaves the buffer empty.
C9_StopFlushesPending ==
    [][(lastOp'.op = "stop" /\ pending # <<>>) =>
         /\ pending' = <<>>
         /\ Len(out') > Len(out)
         /\ out'[Len(out')] = Event("write", "foreign", pending)
         /\ ForeignBytes(out') = ForeignBytes(out) \o pending]_vars

\* stop() has written the buffered chunk as the last thing on the stream
C9_Witness ==
    /\ lastOp.op = "stop"
    /\ lastOp.pending = <<"x">>
    /\ pending = <<>>
    /\ out[Len(out)] = Event("write", "foreign", <<"x">>)

\* C10: when the last call is stop(), in any sequence of start() and stop()
\* calls, no timer is armed, the handle is null and the cursor is visible.
C10_StopShowsCursor ==
    lastOp.op = "stop" => (id = NULL /\ timers = {} /\ ~cursorHidden)

\* stop() has ended a spinning indicator, whose start() had hidden the cursor
C10_Witness ==
    /\ lastOp.op = "stop"
    /\ lastOp.spinning
    /\ enabled
    /\ id = NULL
    /\ ~cursorHidden

\* C11: start() followed by stop() leaves the input device as it was when
\* start() was called: raw mode has the value it had, the 'data' listeners
\* are as many as before, a device that was paused is paused and one that
\* was flowing is flowing.
C11_StopRestoresInputDevice ==
    (lastOp.op = "stop" /\ lastOp.spinning) => stdin = stdinBefore

\* stop() has ended the discarding of a device that was paused and in raw
\* mode when start() took it
C11_Witness ==
    /\ lastOp.op = "stop"
    /\ lastOp.discarding
    /\ ~discarding.on
    /\ stdinBefore.paused
    /\ stdinBefore.isRaw
    /\ stdin.paused
    /\ stdin.isRaw
    /\ stdin.listeners = stdinBefore.listeners

\* the writes of the indicator itself in a log
EngineWrites(log) == SelectSeq(log, IsEngine)

\* C12: stopAndPersist({symbol, text}) stops the indicator and then writes
\* exactly one line, the last thing on the stream: the symbol, a space, the
\* text (the current text when none is given), the elapsed annotation and a
\* line break; a symbol that is not given is a space, and after the empty
\* symbol there is no separating space.
C12_PersistedLine ==
    [][lastOp'.op = "stopAndPersist" =>
         LET symbol == lastOp'.arg
             txt == lastOp'.arg2
             line == (IF symbol = Undefined THEN <<" ", " ">>
                      ELSE IF symbol = <<>> THEN <<>>
                      ELSE symbol \o <<" ">>)
                     \o (IF txt = <<>> THEN text' ELSE txt)
                     \o timeTaken([startTime |-> startTime', now |-> now'])
                     \o <<LineBreak>>
         IN  /\ id' = NULL
             /\ timers' = {}
             /\ EngineWrites(out') =
                    Append(EngineWrites(out), Event("write", "engine", line))
             /\ out'[Len(out')] = Event("write", "engine", line)]_vars

\* C13: succeed(text), fail(text), warn(text) and info(text) stop the
\* indicator and leave, as the last thing on the stream, the glyph of the
\* outcome, a space, the text (the current text when none is given) and a
\* line break.
C13_OutcomeLine ==
    [][lastOp'.op \in Outcomes =>
         LET glyph == CASE lastOp'.op = "succeed" -> logSymbols.success
                        [] lastOp'.op = "fail" -> logSymbols.error
                        [] lastOp'.op = "warn" -> logSymbols.warning
                        [] lastOp'.op = "info" -> logSymbols.info
             txt == IF lastOp'.arg = <<>> THEN text' ELSE lastOp'.arg
         IN  /\ id' = NULL
             /\ timers' = {}
             /\ out'[Len(out')] =
                    Event("write", "engine",
                          glyph \o <<" ">> \o txt \o <<LineBreak>>)]_vars

\* the plain line of a disabled indicator: the indent, the fallback glyph,
\* a space, the text and a line break
IsPlainLine(s, txt) ==
    \E k \in 0..Len(s) :
        s = [i \in 1..k |-> " "] \o <<"-", " ">> \o txt \o <<LineBreak>>

\* C14: start() on a disabled indicator arms no timer and writes exactly one
\* plain line: the indent, the fallback glyph '-', a space, the text and a
\* line break; it writes nothing when the text is empty.
C14_DisabledStartWritesPlainLine ==
    [][(lastOp'.op = "start" /\ ~enabled /\ ~isSilent) =>
         /\ timers' = timers
         /\ id' = id
         /\ IF text' = <<>>
            THEN out' = out
            ELSE /\ Len(out') = Len(out) + 1
                 /\ SubSeq(out', 1, Len(out)) = out
                 /\ IsEngine(out'[Len(out')])
                 /\ IsPlainLine(out'[Len(out')].s, text')]_vars

\* C15: while isSilent is true, start(), the timer's ticks, render(), stop(),
\* stopAndPersist() and the outcome methods write nothing to the stream;
\* once isSilent is false again, stopAndPersist() writes its line.
C15_SilentWritesNothing ==
    [][/\ (isSilent /\ lastOp'.op \in ({"start", "tick", "render", "stop",
                                        "stopAndPersist"} \cup Outcomes)) =>
            SelectSeq(out', IsWrite) = SelectSeq(out, IsWrite)
       /\ (~isSilent /\ lastOp'.op = "stopAndPersist") =>
            /\ IsEngine(out'[Len(out')])
            /\ EndsWithLineBreak(out'[Len(out')].s)]_vars

\* C16: frameIndex is -1 before the first render; a render takes it from -1
\* to 0 and then through 1, ..., n-1, 0, ... for a frame set of n frames, so
\* after a render it is in 0..n-1.
C16_FrameIndexCycle ==
    [][/\ lastOp.op = "new" => frameIndex = -1
       /\ (lastOp'.op \in {"render", "tick"} /\ out' # out) =>
            /\ frameIndex' = (frameIndex + 1) % Len(spinner.frames)
            /\ frameIndex' \in 0..(Len(spinner.frames) - 1)]_vars

\* C17: assigning a frame set makes the interval that of the new set (100
\* when it has none), and the render that follows the assignment shows the
\* first frame of the new set and leaves frameIndex at 0.
C17_SetSpinnerResetsFrameIndex ==
    [][/\ lastOp'.op = "setSpinner" =>
            interval' = (IF spinner'.interval # NoInterval
                         THEN spinner'.interval ELSE DefaultInterval)
       /\ (lastOp.op = "setSpinner" /\ lastOp'.op = "render") =>
            /\ IsEngine(out'[Len(out')])
            /\ out'[Len(out')].s[1] = spinner.frames[1]
            /\ frameIndex' = 0]_vars

\* C18: clear() on a stream that is not a TTY, or on a disabled indicator,
\* calls nothing on the stream and changes no state of the indicator.
C18_ClearIsNoOpOffTTY ==
    [][(lastOp'.op = "clear" /\ (~isTTY \/ ~enabled)) =>
         UNCHANGED <<out, text, id, frameIndex, enabled, startTime, spinner,
                     interval, isSilent, timers, cursorHidden>>]_vars

\* the composed content of the frame that a render shows: the glyph, a
\* space and the text
Composed == <<spinner.frames[frameIndex + 1], " ">> \o text

\* the step is a render that has written a frame
RenderStep == lastOp'.op \in {"render", "tick"} /\ out' # out

\* the content that the render of this step has written
Rendered == out'[Len(out')].s

\* C19: when the terminal's rows are known and at least 2 and the composed
\* content needs more rows than that, the rendered content ends with the
\* truncation notice as its last row and takes at most the terminal's rows.
C19_TallContentIsTruncated ==
    [][(RenderStep /\ rows >= 2 /\ rowsFor(Composed, indent, columns) > rows) =>
         LET ls == SplitLines(Rendered)
         IN  /\ ls[Len(ls)] = Notice
             /\ rowsFor(Rendered, indent, columns) <= rows]_vars

\* C20: the rendered content is the composed content, with no truncation
\* notice in it, when the terminal's rows are not known, when the content
\* needs at most that many rows (exactly as many included), and when the
\* terminal has fewer than 2 rows.
C20_FittingContentIsUnchanged ==
    [][(RenderStep /\ (\/ rows = Unknown
                       \/ rows < 2
                       \/ rowsFor(Composed, indent, columns) <= rows)) =>
         /\ Rendered = Composed
         /\ \A i \in 1..Len(Rendered) : <<Rendered[i]>> # Notice]_vars

\* a render has written three lines on a terminal of exactly three rows
C20_Witness ==
    /\ lastOp.op = "render"
    /\ rows = 3
    /\ columns = 80
    /\ Len(SplitLines(text)) = 3
    /\ \E f \in 1..Len(spinner.frames) :
         out[Len(out)] =
            Event("write", "engine", <<spinner.frames[f], " ">> \o text)
    /\ rowsFor(out[Len(out)].s, indent, columns) = rows

\* C21: assigning an invalid value to a validated property (a negative
\* indent, a non-boolean isEnabled or isSilent) raises an error in the
\* assignment itself and leaves the property and all other state of the
\* indicator as they were.
C21_InvalidAssignmentIsRejected ==
    [][lastOp'.op = "assignInvalid" =>
         /\ lastOp'.thrown
         /\ UNCHANGED <<indent, enabled, isSilent, text, id, frameIndex,
                        startTime, spinner, interval, prefixText, suffixText,
                        out, timers, cursorHidden>>]_vars

\* options.spinner as the constructor's caller wrote it
OptionArg(o) == IF o.name # NoName THEN <<o.name>> ELSE o.set.frames

\* options.spinner names a built-in frame set, or is an object with a
\* non-empty list of frames
ValidOption(o) ==
    IF o.name # NoName
    THEN o.name \in DOMAIN cliSpinners
    ELSE o.set.frames # Undefined /\ o.set.frames # <<>>

\* C22: a frame set with no non-empty list of frames, or an unknown name of
\* a frame set, is rejected with an error at construction or at assignment,
\* before any output: an indicator exists only for valid options.spinner, an
\* assignment of an invalid frame set throws and changes nothing, and the
\* indicator never holds an empty frame set.
C22_InvalidFrameSetIsRejected ==
    /\ [](lastOp.op = "new" =>
            \E o \in SpinnerOptions :
                ValidOption(o) /\ lastOp.arg = OptionArg(o))
    /\ [](Len(spinner.frames) > 0)
    /\ [][(lastOp'.op = "setSpinner" /\ lastOp'.arg = <<>>) =>
             /\ lastOp'.thrown
             /\ spinner' = spinner
             /\ out' = out]_vars

\* the string an affix contributes: its value, or the string its function
\* returns; nothing when the function returns something else
AffixValue(a) == IF a.str THEN a.value ELSE <<>>

\* the segments that are present, with one space between neighbours
RECURSIVE JoinSegments(_)
JoinSegments(segs) ==
    IF segs = <<>> THEN <<>>
    ELSE IF Head(segs) = <<>> THEN JoinSegments(Tail(segs))
    ELSE LET rest == JoinSegments(Tail(segs))
         IN  IF rest = <<>> THEN Head(segs) ELSE Head(segs) \o <<" ">> \o rest

\* C23: the composed line is the prefix, the glyph (the symbol in a
\* persisted line), the text, the suffix and the elapsed annotation, in this
\* order, with exactly one space between two present segments and no space
\* where a segment is empty.
C23_ComposedLine ==
    [][/\ RenderStep =>
            Rendered = JoinSegments(<<AffixValue(prefixText),
                                      <<spinner.frames[frameIndex + 1]>>,
                                      text,
                                      AffixValue(suffixText),
                                      timeTaken(St)>>)
       /\ (lastOp'.op = "stopAndPersist" /\ out' # out) =>
            Rendered = JoinSegments(<<AffixValue(prefixText),
                                      lastOp'.arg,
                                      lastOp'.arg2,
                                      AffixValue(suffixText)>>)
                          \o <<LineBreak>>]_vars

\* C24: a prefixText or suffixText that is a function is called exactly once
\* for each composition of a line and not at construction or assignment.
C24_AffixFunctionCalledOncePerLine ==
    /\ [](lastOp.op = "new" => affixCalls = 0)
    /\ [][IF RenderStep \/ (lastOp'.op = "stopAndPersist" /\ out' # out)
          THEN affixCalls' = affixCalls
                   + (IF prefixText.fn THEN 1 ELSE 0)
                   + (IF suffixText.fn THEN 1 ELSE 0)
          ELSE affixCalls' = affixCalls]_vars

\* C25: frame() returns the composed string (glyph, space, text, elapsed
\* annotation) and changes no state but frameIndex: it writes nothing and
\* leaves the timer handle, the armed timers, the text, the start time, the
\* enabled flag, the frame set and the cursor as they were.
C25_FrameChangesOnlyFrameIndex ==
    [][lastOp'.op = "frame" =>
         /\ frameIndex < Len(spinner.frames) =>
                lastOp'.ret = Composed \o timeTaken(St)
         /\ UNCHANGED <<out, issuedLog, id, timers, text, startTime, enabled,
                        spinner, interval, isSilent, cursorHidden, indent,
                        streamWrite, pending>>]_vars

\* frame() was called on a spinning indicator after time has passed, and
\* has returned the second frame's line and advanced frameIndex
C25_Witness ==
    /\ lastOp.op = "frame"
    /\ lastOp.spinning
    /\ lastOp.ret = <<"b", " ", "foo">>
    /\ frameIndex = 2
    /\ startTime # NULL
    /\ now > startTime

\* C26: two indicators on two different streams do not interact: a start,
\* a stop or a timer render of one leaves the other's spinning state (id),
\* its armed timer, its frameIndex and what its stream has received
\* unchanged.
C26_IndicatorsDoNotInteract ==
    [][/\ lastOp'.op \in {"start", "stop", "tick"} =>
            /\ other'.id = other.id
            /\ other'.frameIndex = other.frameIndex
            /\ other'.out = other.out
            /\ (other.id \in timers) = (other.id \in timers')
       /\ lastOp'.op \in {"other.start", "other.stop", "other.tick"} =>
            /\ id' = id
            /\ frameIndex' = frameIndex
            /\ out' = out
            /\ (id \in timers) = (id \in timers')]_vars

\* both indicators were spinning and the first was stopped: the second's
\* timer is still armed and the first's is not
C26_Witness ==
    /\ lastOp.op = "stop"
    /\ lastOp.spinning
    /\ id = NULL
    /\ other.id # NULL
    /\ other.id \in timers
    /\ Cardinality(timers) = 1
    /\ other.out # <<>>

\* C27: given a promise or a function, the promise helper starts the
\* indicator at once, and when the action has settled it ends the indicator
\* exactly once, with succeed() if the action was fulfilled and with fail()
\* if it was rejected; given anything else, it throws before the indicator
\* is started.
C27_PromiseHelper ==
    /\ [][lastOp'.op = "promise" =>
             IF lastOp'.arg \in {<<"promise">>, <<"function">>}
             THEN /\ ~lastOp'.thrown
                  /\ startTime' = now
                  /\ enabled => id' # NULL
             ELSE /\ lastOp'.thrown
                  /\ UNCHANGED <<id, startTime, out, timers>>]_vars
    /\ [](/\ action.succeeded + action.failed <= 1
          /\ action.succeeded = 1 => action.state = "fulfilled"
          /\ action.failed = 1 => action.state = "rejected")
    /\ (action.state \in {"fulfilled", "rejected"})
          ~> (action.succeeded + action.failed = 1)

\* the rows the indicator's last frame takes on the terminal: the rows to
\* clear.  None when nothing was drawn since the last clear.
DrawnRows ==
    IF out # <<>> /\ IsEngine(out[Len(out)])
                  /\ ~EndsWithLineBreak(out[Len(out)].s)
    THEN rowsFor(out[Len(out)].s, indent, columns)
    ELSE 0

\* the calls that reached the stream in this step
NewEvents == SubSeq(out', Len(out) + 1, Len(out'))

\* how many of them are calls of `kind`
CountNew(kind) ==
    Cardinality({i \in 1..Len(NewEvents) : NewEvents[i].k = kind})

\* C28: on an enabled indicator on a TTY, clear() with k rows to clear
\* issues exactly k line clears and max(0, k - 1) upward cursor moves, moves
\* the cursor to the column of the indent, and leaves no rows to clear.
C28_ClearErasesDrawnRows ==
    [][lastOp'.op = "clear" =>
         /\ CountNew("clearLine") = DrawnRows
         /\ CountNew("moveCursor") =
                (IF DrawnRows > 0 THEN DrawnRows - 1 ELSE 0)
         /\ \A i \in 1..Len(NewEvents) :
                NewEvents[i].k = "cursorTo" =>
                    NewEvents[i].s = <<ToString(indent)>>
         /\ DrawnRows > 0 => CountNew("cursorTo") > 0
         /\ DrawnRows' = 0]_vars

\* C29: every clear, called directly or by render() or stop(), erases
\* exactly the rows that the most recent render drew, and after a render
\* the rows to clear are the rows of the content it wrote.
C29_ClearMatchesLastRender ==
    [][lastOp'.op \in {"clear", "render", "tick", "stop"} =>
         /\ CountNew("clearLine") = DrawnRows
         /\ lastOp'.op \in {"render", "tick"} =>
                DrawnRows' = rowsFor(Rendered, indent, columns)]_vars

\* a divided by b, rounded up
Ceil(a, b) == IF a % b = 0 THEN a \div b ELSE (a \div b) + 1

\* the cells of a line: one for each token and one more for each wide glyph
Cells(line) ==
    Len(line) + Cardinality({i \in 1..Len(line) : line[i] \in WideGlyphs})

\* the sum over the first n logical lines of max(1, ceil((indent + cells) /
\* columns))
RECURSIVE ClaimedRows(_, _, _, _)
ClaimedRows(ls, n, ind, cols) ==
    IF n = 0 THEN 0
    ELSE LET r == Ceil(ind + Cells(ls[n]), cols)
         IN  (IF r < 1 THEN 1 ELSE r) + ClaimedRows(ls, n - 1, ind, cols)

WritesOf(c) ==
    {i \in 1..Len(NewEvents) : IsWrite(NewEvents[i]) /\ NewEvents[i].s = c}

\* the positions among this step's calls of writes that hold the glyph and
\* the text of the frame
FrameWrites ==
    {i \in 1..Len(NewEvents) :
        /\ IsWrite(NewEvents[i])
        /\ \E j \in 1..Len(NewEvents[i].s) :
               NewEvents[i].s[j] = spinner.frames[frameIndex + 1]}

\* C32: a render on a TTY stream emits the synchronized-output-begin
\* sequence, then the clear and the frame, then the synchronized-output-end
\* sequence: one begin, one end after it, the clear and the frame between.
C32_RenderIsSynchronized ==
    [][(RenderStep /\ isTTY) =>
         \E b \in WritesOf(synchronizedOutput.enable),
            e \in WritesOf(synchronizedOutput.disable) :
              /\ b < e
              /\ \A i \in 1..Len(NewEvents) :
                     NewEvents[i].k = "clearLine" => (b < i /\ i < e)
              /\ FrameWrites # {}
              /\ \A i \in FrameWrites : b <= i /\ i <= e]_vars

\* the step has written the next frame as the last thing on the stream
FrameDrawn ==
    /\ out' # out
    /\ IsEngine(out'[Len(out')])
    /\ frameIndex' = (frameIndex + 1) % Len(spinner.frames)

CompleteCycles(ev) ==
    Len(ev) > 0 =>
        /\ IsWrite(ev[Len(ev)])
        /\ \A i \in 1..Len(ev) :
               ev[i].k = "clearLine" =>
                   /\ i + 2 <= Len(ev)
                   /\ ev[i + 1].k = "cursorTo"
                   /\ IsWrite(ev[i + 2])

\* C34: a redraw cycle of the redraw timer and one of a foreign write (or of
\* the deadline) never interleave: each step that redraws issues complete
\* cycles, with no clear or write of another cycle between the clear and the
\* write of one.
C34_CyclesDoNotInterleave ==
    [][lastOp'.op \in {"tick", "write", "deadline"} =>
         CompleteCycles(NewEvents)]_vars

\* a foreign line was written through the wrapper of a spinning indicator:
\* the cycle of the line, then the cycle of the frame
C34_Witness ==
    /\ lastOp.op = "write"
    /\ lastOp.hooked
    /\ lastOp.spinning
    /\ Len(out) >= 6
    /\ LET n == Len(out) - 6
       IN  /\ out[n + 1].k = "clearLine"
           /\ out[n + 2].k = "cursorTo"
           /\ IsForeign(out[n + 3])
           /\ out[n + 4].k = "clearLine"
           /\ out[n + 5].k = "cursorTo"
           /\ IsEngine(out[n + 6])

C37_StopEndsAnimation ==
    [][/\ (lastOp'.op = "stop" /\ id # NULL) =>
            /\ id' = NULL
            /\ id \notin timers'
            /\ ~cursorHidden'
       /\ (lastOp'.op = "tick" /\ afterStop) => out' = out]_vars

\* C38: an indicator constructed disabled never spins: after start() and
\* after any sequence of succeed(), fail(), warn() and info() that follows,
\* no timer is armed, the handle is null and the cursor is not hidden.
C38_DisabledNeverSpins ==
    ~enabled =>
        /\ id = NULL
        /\ timers = {}
        /\ ~cursorHidden

C38_Witness ==
    /\ ~enabled
    /\ startTime # NULL
    /\ lastOp.op = "info"
    /\ Len(out) >= 3
    /\ id = NULL

\* C39: the start time is set by start() only: clear(), render(), the
\* timer's redraw and frame() leave it as it was, so that the elapsed time
\* is measured from the most recent start().
C39_OnlyStartSetsStartTime ==
    [][/\ lastOp'.op \in {"clear", "render", "tick", "frame"} =>
            startTime' = startTime
       /\ lastOp'.op = "start" => startTime' = now]_vars

\* the elapsed annotation in the resolution `res`
Annotation(ms, res) ==
    IF res = "s"
    THEN <<" (", ToString(ms \div 1000), "s)">>
    ELSE <<" (", ToString(ms), "ms)">>

EndsWith(s, t) ==
    /\ Len(s) >= Len(t)
    /\ SubSeq(s, Len(s) - Len(t) + 1, Len(s)) = t

\* the last line written to the stream, without its line break
LastLine == SubSeq(out'[Len(out')].s, 1, Len(out'[Len(out')].s) - 1)

\* C40: on an indicator that was started, frame() and the persisted line of
\* an outcome method end with the elapsed annotation in the configured
\* resolution exactly when the timer option is true.
C40_TimerOptionAnnotates ==
    [][/\ (lastOp'.op = "frame" /\ startTime # NULL) =>
            (options.timer <=>
                EndsWith(lastOp'.ret,
                         Annotation(now' - startTime',
                                    options.timerResolution)))
       /\ (lastOp'.op \in Outcomes /\ startTime # NULL) =>
            (options.timer <=>
                EndsWith(LastLine,
                         Annotation(now' - startTime',
                                    options.timerResolution)))]_vars

====
